---- MODULE Spec2Model ----
(***************************************************************************)
(* SEIRD dashboard: one "Run Simulation" click of seird_model.py and the   *)
(* numerical core of utils.py (ode_model, ode_solver, calculate_metrics,   *)
(* plot_daily_incidence).                                                  *)
(*                                                                         *)
(* Numbers.  Rates are the slider values in thousandths (RateDen).         *)
(* Compartment values are floats in the program; here they are fixed-point *)
(* integers counting 1/PopDen of a person.  Every float division is a      *)
(* division that truncates toward zero (Quot), which like IEEE rounding    *)
(* commutes with negation.                                                 *)
(*                                                                         *)
(* Integrator.  scipy's odeint is a library; it is modelled as one         *)
(* explicit Euler step per grid interval (odeint_step).  Like every linear *)
(* scheme it advances the state by a linear combination of ode_model       *)
(* evaluations, and its first output row is the initial state.             *)
(*                                                                         *)
(* Inputs range over what the utils functions accept; the sidebar widgets  *)
(* of seird_model.py restrict them further (N >= 1000, I0 >= 1).           *)
(***************************************************************************)
EXTENDS Integers, Sequences, FiniteSets, TLC

VARIABLES pc, initial_conditions, params, days, tspan, sol, metrics,
          fig_incidence, err

vars == <<pc, initial_conditions, params, days, tspan, sol, metrics,
          fig_incidence, err>>

\* ---- bounds and program constants ----
MaxDays == 9           \* longest simulated horizon (the slider allows 600)
PopDen == 10           \* fixed-point resolution: units per person
RateDen == 1000        \* rate sliders move in steps of 0.001
MinPopulation == 1000  \* smallest N the sidebar offers
MaxInitial == 10000    \* largest initial count the sidebar offers
IncidenceGate == 7     \* incidence chart is drawn only if days > 7

PopulationChoices == {0, MinPopulation}
ExposedChoices == {0, 10}
InfectedChoices == {1, 5, 50}
RecoveredChoices == {0, 100}
DeathsChoices == {0, MaxInitial}
BetaChoices == {0, 400, 1000}
SigmaChoices == {0, 197}
GammaChoices == {0, 100}
MuChoices == {0, 27}
DaysChoices == 1..MaxDays

\* ---- arithmetic helpers ----
Abs(x) == IF x >= 0 THEN x ELSE -x

\* float division a / b (b # 0), truncated toward zero
Quot(a, b) ==
    LET q == Abs(a) \div Abs(b)
    IN IF (a >= 0) = (b > 0) THEN q ELSE -q

\* float a * b / c (c # 0), truncated toward zero; the product is split so
\* that no intermediate value leaves the 32-bit range
MulQuot(a, b, c) ==
    LET A == Abs(a)
        B == Abs(b)
        C == Abs(c)
        q == (A \div C) * B + (A % C) * (B \div C) + ((A % C) * (B % C)) \div C
    IN IF ((a >= 0) = (b >= 0)) = (c > 0) THEN q ELSE -q

RECURSIVE SumSeq(_)
SumSeq(s) == IF s = <<>> THEN 0 ELSE s[1] + SumSeq(Tail(s))

RECURSIVE MaxSeq(_)
MaxSeq(s) == IF Len(s) = 1 THEN s[1]
             ELSE LET m == MaxSeq(Tail(s)) IN IF s[1] >= m THEN s[1] ELSE m

Column(rows, j) == [k \in 1..Len(rows) |-> rows[k][j]]

\* Python int(x): drops the fraction, toward zero
int(x) == Quot(x, PopDen)

\* np.argmax: 0-based index of the first occurrence of the maximum
np_argmax(I) ==
    (CHOOSE k \in 1..Len(I) :
        /\ I[k] = MaxSeq(I)
        /\ \A j \in 1..(k - 1) : I[j] # MaxSeq(I)) - 1

\* long division of a by n (a >= 0, n > 0) carried to `digits` decimals:
\* <<quotient in units of 10^-digits, remainder>>
RECURSIVE LongDiv(_, _, _)
LongDiv(a, n, digits) ==
    IF digits = 0 THEN <<a \div n, a % n>>
    ELSE LET p == LongDiv(a, n, digits - 1)
         IN <<p[1] * 10 + (p[2] * 10) \div n, (p[2] * 10) % n>>

\* round(a / n * 100, ndigits), in units of 10^-ndigits percent
\* (round half to even, symmetric in sign)
round_pct(a, n, ndigits) ==
    LET p == LongDiv(Abs(a), n, ndigits + 2)
        q == p[1]
        r == p[2]
        m == IF 2 * r > n THEN q + 1
             ELSE IF 2 * r < n THEN q
             ELSE IF q % 2 = 0 THEN q ELSE q + 1
    IN IF a >= 0 THEN m ELSE -m

\* np.diff
np_diff(a) == [k \in 1..(Len(a) - 1) |-> a[k + 1] - a[k]]

\* a float that is nan or inf
NonFinite == "nan"

\* a trajectory row whose values are not finite
NaNRow == <<>>

\* ---- utils.py ----

\* ode_model with the sign of the incubation outflow flipped in dEdt
ode_model_signslip(z, t, beta, sigma, gamma, mu) ==
    LET S == z[1]
        E == z[2]
        I == z[3]
        R == z[4]
        D == z[5]
        N == S + E + I + R + D
    IN IF N = 0 THEN NaNRow
       ELSE << MulQuot(MulQuot(-beta, S, RateDen), I, N),
               MulQuot(MulQuot(beta, S, RateDen), I, N) + Quot(sigma * E, RateDen),
               Quot(sigma * E, RateDen) - Quot(gamma * I, RateDen)
                                        - Quot(mu * I, RateDen),
               Quot(gamma * I, RateDen),
               Quot(mu * I, RateDen) >>

\* ode_model with the mortality outflow missing from dIdt
ode_model_nodeath(z, t, beta, sigma, gamma, mu) ==
    LET S == z[1]
        E == z[2]
        I == z[3]
        R == z[4]
        D == z[5]
        N == S + E + I + R + D
    IN IF N = 0 THEN NaNRow
       ELSE << MulQuot(MulQuot(-beta, S, RateDen), I, N),
               MulQuot(MulQuot(beta, S, RateDen), I, N) - Quot(sigma * E, RateDen),
               Quot(sigma * E, RateDen) - Quot(gamma * I, RateDen),
               Quot(gamma * I, RateDen),
               Quot(mu * I, RateDen) >>

\* The five derivatives, per day.  N = 0 divides by zero: numpy floats give
\* nan or inf with a warning, no exception.
ode_model(z, t, beta, sigma, gamma, mu) ==
    LET S == z[1]
        E == z[2]
        I == z[3]
        R == z[4]
        D == z[5]
        N == S + E + I + R + D
    IN IF N = 0 THEN NaNRow
       ELSE << MulQuot(MulQuot(-beta, S, RateDen), I, N),
               MulQuot(MulQuot(beta, S, RateDen), I, N) - Quot(sigma * E, RateDen),
               Quot(sigma * E, RateDen) - Quot(gamma * I, RateDen)
                                        - Quot(mu * I, RateDen),
               Quot(gamma * I, RateDen),
               Quot(mu * I, RateDen) >>

\* one grid interval of the integration, from row y at time t
odeint_step(y, t, args) ==
    IF y = NaNRow THEN NaNRow
    ELSE LET dz == ode_model(y, t, args[1], args[2], args[3], args[4])
         IN IF dz = NaNRow THEN NaNRow
            ELSE [j \in 1..5 |-> y[j] + dz[j]]

\* odeint(func, y0, t, args): one row per grid point, the first is y0
RECURSIVE odeint(_, _, _)
odeint(y0, t, args) ==
    IF Len(t) = 1 THEN <<y0>>
    ELSE LET head == odeint(y0, SubSeq(t, 1, Len(t) - 1), args)
         IN Append(head, odeint_step(head[Len(head)], t[Len(t) - 1], args))

ode_solver(t, ic, ps) ==
    LET initE == ic[1]
        initI == ic[2]
        initR == ic[3]
        initN == ic[4]
        initD == ic[5]
        initS == initN - (initE + initI + initR + initD)
    IN odeint([j \in 1..5 |->
                  PopDen * <<initS, initE, initI, initR, initD>>[j]], t, ps)

\* calculate_metrics reporting the last day of the maximum
calculate_metrics_lastmax(S, E, I, R, D, beta, gamma, mu, initN) ==
    IF gamma + mu = 0 THEN [exc |-> "ZeroDivisionError"]
    ELSE LET peak_infected == MaxSeq(I)
             peak_day == (CHOOSE k \in 1..Len(I) :
                            /\ I[k] = MaxSeq(I)
                            /\ \A j \in (k + 1)..Len(I) : I[j] # MaxSeq(I)) - 1
         IN [R0 |-> <<beta, gamma + mu>>,
             PeakInfected |-> int(peak_infected),
             PeakDay |-> peak_day,
             AttackRate |->
                 IF initN = 0 THEN NonFinite
                 ELSE round_pct(initN * PopDen - S[Len(S)], initN * PopDen, 2),
             MortalityRate |->
                 IF initN = 0 THEN NonFinite
                 ELSE round_pct(D[Len(D)], initN * PopDen, 4)]

\* The metrics record, or the exception the call raises.  R0 is the
\* fraction <<numerator, denominator>> in rate units; a zero denominator is
\* Python float division by zero.  Rates are in hundredths (AttackRate) and
\* ten-thousandths (MortalityRate) of a percent.
calculate_metrics(S, E, I, R, D, beta, gamma, mu, initN) ==
    IF gamma + mu = 0 THEN [exc |-> "ZeroDivisionError"]
    ELSE LET peak_infected == MaxSeq(I)
             peak_day == np_argmax(I)
         IN [R0 |-> <<beta, gamma + mu>>,
             PeakInfected |-> int(peak_infected),
             PeakDay |-> peak_day,
             AttackRate |->
                 IF initN = 0 THEN NonFinite
                 ELSE round_pct(initN * PopDen - S[Len(S)], initN * PopDen, 2),
             MortalityRate |->
                 IF initN = 0 THEN NonFinite
                 ELSE round_pct(D[Len(D)], initN * PopDen, 4)]

\* The two traces of the incidence figure and their shared x axis.
plot_daily_incidence(rows, ts, initN) ==
    LET S == Column(rows, 1)
        D == Column(rows, 5)
        cumulative == [k \in 1..Len(S) |-> initN * PopDen - S[k]]
    IN [x |-> SubSeq(ts, 1, Len(ts) - 1),
        new_infections |-> np_diff(<<0>> \o cumulative),
        new_deaths |-> np_diff(<<0>> \o D)]

\* ---- seird_model.py ----
Finite(rows) == \A k \in 1..Len(rows) : rows[k] # NaNRow

Init ==
    /\ pc = "idle"
    /\ initial_conditions = <<0, 0, 0, 0, 0>>
    /\ params = <<0, 0, 0, 0>>
    /\ days = 1
    /\ tspan = <<>>
    /\ sol = <<>>
    /\ metrics = [exc |-> "unset"]
    /\ fig_incidence = [x |-> <<>>, new_infections |-> <<>>, new_deaths |-> <<>>]
    /\ err = "none"

\* the button click: read the widgets, build the grid
RunSimulation ==
    /\ pc = "idle"
    /\ \E initN \in PopulationChoices, initE \in ExposedChoices,
          initI \in InfectedChoices, initR \in RecoveredChoices,
          initD \in DeathsChoices :
          initial_conditions' = <<initE, initI, initR, initN, initD>>
    /\ \E beta \in BetaChoices, sigma \in SigmaChoices,
          gamma \in GammaChoices, mu \in MuChoices :
          params' = <<beta, sigma, gamma, mu>>
    /\ \E d \in DaysChoices :
          /\ days' = d
          /\ tspan' = [k \in 1..d |-> k - 1]
    /\ pc' = "solve"
    /\ UNCHANGED <<sol, metrics, fig_incidence, err>>

\* sol = utils.ode_solver(tspan, initial_conditions, params)
Solve ==
    /\ pc = "solve"
    /\ sol' = ode_solver(tspan, initial_conditions, params)
    /\ pc' = IF Finite(sol') THEN "metrics" ELSE "nonfinite"
    /\ UNCHANGED <<initial_conditions, params, days, tspan, metrics,
                   fig_incidence, err>>

\* metrics = utils.calculate_metrics(S, E, I, R, D, beta, gamma, mu, initN)
CalculateMetrics ==
    /\ pc = "metrics"
    /\ LET m == calculate_metrics(Column(sol, 1), Column(sol, 2),
                                  Column(sol, 3), Column(sol, 4),
                                  Column(sol, 5), params[1], params[3],
                                  params[4], initial_conditions[4])
       IN IF "exc" \in DOMAIN m
          THEN /\ err' = m.exc
               /\ pc' = "failed"
               /\ UNCHANGED metrics
          ELSE /\ metrics' = m
               /\ pc' = "incidence"
               /\ UNCHANGED err
    /\ UNCHANGED <<initial_conditions, params, days, tspan, sol,
                   fig_incidence>>

\* if days > 7: fig_incidence = utils.plot_daily_incidence(sol, tspan, initN)
PlotDailyIncidence ==
    /\ pc = "incidence"
    /\ fig_incidence' =
          IF days > IncidenceGate
          THEN plot_daily_incidence(sol, tspan, initial_conditions[4])
          ELSE fig_incidence
    /\ pc' = "done"
    /\ UNCHANGED <<initial_conditions, params, days, tspan, sol, metrics,
                   err>>

Next ==
    \/ RunSimulation
    \/ Solve
    \/ CalculateMetrics
    \/ PlotDailyIncidence

Spec == Init /\ [][Next]_vars

\* ---- names used by the properties ----
initE == initial_conditions[1]
initI == initial_conditions[2]
initR == initial_conditions[3]
initN == initial_conditions[4]
initD == initial_conditions[5]
initS == initN - (initE + initI + initR + initD)
beta == params[1]
sigma == params[2]
gamma == params[3]
mu == params[4]

\* ode_solver has returned
Solved == pc \in {"metrics", "incidence", "done", "failed", "nonfinite"}

\* calculate_metrics has returned a record
HasMetrics == pc \in {"incidence", "done"}

\* plot_daily_incidence has returned a figure
HasIncidence == pc = "done" /\ days > IncidenceGate

ValidInput == initS >= 0 /\ initN > 0

RowSum(row) == row[1] + row[2] + row[3] + row[4] + row[5]

Sus == Column(sol, 1)
Exp == Column(sol, 2)
Inf == Column(sol, 3)
Dead == Column(sol, 5)

\* C1: an over-subscribed initial state (N > 0, derived S0 < 0) is rejected
\* with InvalidInitialState before integration, and no trajectory with a
\* negative Susceptible value is returned.
C1_OversubscribedRejected ==
    (Solved /\ initN > 0 /\ initS < 0) =>
        /\ err = "InvalidInitialState"
        /\ \A k \in 1..Len(sol) : sol[k] # NaNRow => sol[k][1] >= 0

\* C2: for valid input every row of the returned trajectory sums to N within
\* 0.1% of N.
C2_Conservation ==
    (Solved /\ ValidInput) =>
        \A k \in 1..Len(sol) :
            /\ sol[k] # NaNRow
            /\ Abs(RowSum(sol[k]) - initN * PopDen) * 1000 <= initN * PopDen

C2_Witness ==
    /\ pc = "done"
    /\ ValidInput
    /\ days > IncidenceGate
    /\ beta > 0 /\ sigma > 0 /\ gamma > 0 /\ mu > 0
    /\ Sus[Len(sol)] < Sus[1]
    /\ Dead[Len(sol)] > Dead[1]

\* C3: for a valid run, R0 is beta / (gamma + mu) when gamma + mu > 0; when
\* gamma + mu = 0 the call raises nothing and returns an "undefined" marker
\* as R0 together with the other metrics.
C3_R0OrUndefinedMarker ==
    (pc \in {"incidence", "done", "failed"} /\ ValidInput) =>
        /\ err = "none"
        /\ DOMAIN metrics = {"R0", "PeakInfected", "PeakDay", "AttackRate",
                             "MortalityRate"}
        /\ IF gamma + mu > 0 THEN metrics.R0 = <<beta, gamma + mu>>
                             ELSE metrics.R0 = <<>>

\* C4: the incidence series has len(grid) - 1 entries, entry k being
\* S[k-1] - S[k] and D[k] - D[k-1], one per day index it is paired with.
C4_IncidenceLength ==
    HasIncidence =>
        /\ Len(fig_incidence.new_infections) = Len(tspan) - 1
        /\ Len(fig_incidence.new_deaths) = Len(tspan) - 1
        /\ Len(fig_incidence.x) = Len(fig_incidence.new_infections)
        /\ \A k \in 1..(Len(tspan) - 1) :
              /\ fig_incidence.new_infections[k] = Sus[k] - Sus[k + 1]
              /\ fig_incidence.new_deaths[k] = Dead[k + 1] - Dead[k]

\* C5: the sum of the new-infection values plus the initial cumulative
\* infections N - S[0] equals N - S[final].
C5_IncidenceReconstruction ==
    HasIncidence =>
        SumSeq(fig_incidence.new_infections) + (initN * PopDen - Sus[1])
            = initN * PopDen - Sus[Len(sol)]

\* C6 as stated: with beta = 0 and a valid initial state, Susceptible stays
\* at N - E0 - I0 - R0 - D0, Exposed never exceeds E0 and Infected never
\* exceeds I0.
C6_ZeroEpidemicOriginal ==
    (Solved /\ ValidInput /\ beta = 0) =>
        \A k \in 1..Len(sol) :
            /\ Sus[k] = initS * PopDen
            /\ Exp[k] <= initE * PopDen
            /\ Inf[k] <= initI * PopDen

\* C6 amended: with beta = 0 and a valid initial state, Susceptible stays at
\* N - E0 - I0 - R0 - D0, Exposed never exceeds E0, and Exposed plus
\* Infected never exceeds E0 + I0.
C6_ZeroEpidemic ==
    (Solved /\ ValidInput /\ beta = 0) =>
        \A k \in 1..Len(sol) :
            /\ Sus[k] = initS * PopDen
            /\ Exp[k] <= initE * PopDen
            /\ Exp[k] + Inf[k] <= (initE + initI) * PopDen

C6_Witness ==
    /\ pc = "done"
    /\ ValidInput
    /\ beta = 0
    /\ days > IncidenceGate
    /\ Exp[Len(sol)] < Exp[1]
    /\ \E k \in 1..Len(sol) : Inf[k] > initI * PopDen

\* C7: in every returned trajectory Susceptible is non-increasing and Deaths
\* is non-decreasing from each grid point to the next.
C7_Monotonicity ==
    (Solved /\ Finite(sol)) =>
        \A k \in 1..(Len(sol) - 1) :
            /\ Sus[k + 1] <= Sus[k]
            /\ Dead[k + 1] >= Dead[k]

\* C8: a simulation with N = 0 fails with DegenerateModel before integration
\* begins; nothing is integrated.
C8_DegenerateRejected ==
    (Solved /\ initN = 0) =>
        /\ err = "DegenerateModel"
        /\ sol = <<>>

\* C9: attack rate and mortality rate of every returned Metrics record lie
\* in [0, 100] percent.
C9_RatesInRange ==
    (HasMetrics /\ initN # 0) =>
        /\ metrics.AttackRate \in 0..(100 * 100)
        /\ metrics.MortalityRate \in 0..(100 * 10000)

\* C10 as stated: the peak infected count equals the maximum of the Infected
\* series, and the peak day is the earliest index attaining it (0 when
\* Infected never rises above its initial value).
C10_PeakOriginal ==
    HasMetrics =>
        /\ metrics.PeakInfected * PopDen = MaxSeq(Inf)
        /\ Inf[metrics.PeakDay + 1] = MaxSeq(Inf)
        /\ \A j \in 1..metrics.PeakDay : Inf[j] < MaxSeq(Inf)
        /\ (\A k \in 1..Len(sol) : Inf[k] <= Inf[1]) => metrics.PeakDay = 0

\* C10 amended: the peak infected count is the maximum of the Infected
\* series with its fraction dropped, and the peak day is the earliest index
\* attaining the maximum (0 when Infected never rises above its initial
\* value).
C10_Peak ==
    HasMetrics =>
        /\ metrics.PeakInfected * PopDen <= MaxSeq(Inf)
        /\ MaxSeq(Inf) < (metrics.PeakInfected + 1) * PopDen
        /\ Inf[metrics.PeakDay + 1] = MaxSeq(Inf)
        /\ \A j \in 1..metrics.PeakDay : Inf[j] < MaxSeq(Inf)
        /\ (\A k \in 1..Len(sol) : Inf[k] <= Inf[1]) => metrics.PeakDay = 0

C10_Witness ==
    /\ pc = "done"
    /\ metrics.PeakDay > 0
    /\ MaxSeq(Inf) % PopDen # 0
    /\ \E k \in (metrics.PeakDay + 2)..Len(sol) : Inf[k] = MaxSeq(Inf)
====
